---- MODULE Spec2Model ----
(***************************************************************************)
(* Model of src/main.py (The Homemade Audiobook): the Tkinter UI thread of *)
(* AudiobookApp, the worker threads started by _on_convert_click, and the  *)
(* queue of callbacks the workers hand to the UI thread with root.after.   *)
(*                                                                         *)
(* The pyttsx3 engine is an opaque collaborator: say and runAndWait either *)
(* return or raise, at any time.  The content of the Text widget is an     *)
(* input of each convert click.                                            *)
(***************************************************************************)
EXTENDS Integers, Sequences, FiniteSets, TLC

(* ------------------------------ bounds --------------------------------- *)
\* number of conversions (accepted convert clicks, one worker thread each)
MaxWorkers == 2

Workers == 1..MaxWorkers

\* messages an exception raised by the engine can carry (str(e))
Msgs == {"m1", "m2"}

(* --------------------------- text of the widget ------------------------ *)
\* the characters str.strip() removes (ASCII whitespace expressible here)
Whitespace == {" ", "\t", "\n", "\r", "\f"}

\* "Enter your text here..."
Placeholder ==
  <<"E","n","t","e","r"," ","y","o","u","r"," ","t","e","x","t"," ",
    "h","e","r","e",".",".",".">>

\* contents the user can leave in the Text widget before clicking
Inputs ==
  { <<>>,
    <<" ">>,
    <<"\t", "\n">>,
    Placeholder,
    <<" ">> \o Placeholder,
    Placeholder \o <<" ", "\n">>,
    <<"\n">> \o Placeholder \o <<"\t">>,
    SubSeq(Placeholder, 1, Len(Placeholder) - 1),
    Placeholder \o <<"!">>,
    Placeholder \o <<" ">> \o Placeholder,
    <<"H", "i">>,
    <<" ", "H", "i", "\n">>,
    <<"a", " ", "b">> }

\* text_input.get("1.0", tk.END): the content followed by the newline Tk adds
TextGet(content) == content \o <<"\n">>

RECURSIVE LStrip(_)
LStrip(s) ==
  IF s # <<>> /\ Head(s) \in Whitespace THEN LStrip(Tail(s)) ELSE s

RECURSIVE RStrip(_)
RStrip(s) ==
  IF s # <<>> /\ s[Len(s)] \in Whitespace
    THEN RStrip(SubSeq(s, 1, Len(s) - 1))
    ELSE s

\* a strip that forgets the trailing whitespace
StripLeadingOnly(s) == LStrip(s)

\* str.strip()
Strip(s) == RStrip(LStrip(s))

None == "None"

\* _validate_input: the trimmed text, or None after the warning dialog
ValidateInput(content) ==
  LET text == Strip(TextGet(content))
  IN  IF text = <<>> \/ text = Placeholder THEN None ELSE text

(* ------------------------------- state --------------------------------- *)
VARIABLES
  init,            \* outcome of _initialize_engine: [result, msg]
  engine,          \* self.engine: None or "Engine"
  is_speaking,     \* self.is_speaking
  status,          \* status_label: [text, fg]
  convert_button,  \* state of convert_button: "normal" / "disabled"
  stop_button,     \* state of stop_button
  ui_pc,           \* position of the UI thread: "idle" or inside _on_convert_click
  pc,              \* pc[w]: position of worker w in _speak_text
  exc,             \* exc[w]: message of the exception worker w caught, or None
  e_bound,         \* e_bound[w]: the name e of the except clause is bound
  raised_after_stop, \* workers whose engine call raised after their conversion was stopped
  after_queue,     \* callbacks scheduled with root.after(0, ...), in order
  current,         \* worker of the most recently accepted convert click (0: none)
  stopped,         \* workers whose conversion a stop request has stopped
  nsched,          \* nsched[w]: number of callbacks worker w has scheduled
  last             \* what the last step did: thread, engine calls, dialog, flag access

vars == <<init, engine, is_speaking, status, convert_button, stop_button, ui_pc,
          pc, exc, e_bound, raised_after_stop, after_queue, current, stopped, nsched, last>>

uiVars == <<is_speaking, status, convert_button, stop_button>>
workerVars == <<pc, exc, e_bound, raised_after_stop, nsched>>

NORMAL == "normal"
DISABLED == "disabled"

\* _update_status(message, color)
UpdateStatus(message, color) == [text |-> message, fg |-> color]

StatusReady == UpdateStatus(<<"Ready">>, "gray")
StatusConverting == UpdateStatus(<<"Converting to audio...">>, "blue")
StatusComplete == UpdateStatus(<<"Playback complete">>, "green")
StatusStopped == UpdateStatus(<<"Playback stopped">>, "orange")
StatusNotInstalled == UpdateStatus(<<"Error: pyttsx3 not installed">>, "red")
\* f"Error: {e}"
StatusError(msg) == UpdateStatus(<<"Error: ", msg>>, "red")

\* record of one step
Did(op, calls, dialog, rd, wr) ==
  [op |-> op, calls |-> calls, dialog |-> dialog, flag_read |-> rd, flag_write |-> wr]

(* ------------------------------ construction --------------------------- *)
\* __init__: _create_widgets followed by _initialize_engine
InitOutcomes ==
  {[result |-> "ok", msg |-> None], [result |-> "import_error", msg |-> None]}
  \cup {[result |-> r, msg |-> m] : r \in {"init_error", "setproperty_error"}, m \in Msgs}

InitializeEngineStatus(o) ==
  CASE o.result = "ok" -> StatusReady
    [] o.result = "import_error" -> StatusNotInstalled
    [] OTHER -> StatusError(o.msg)

\* self.engine is assigned as soon as pyttsx3.init() has returned
InitializeEngineEngine(o) ==
  IF o.result \in {"ok", "setproperty_error"} THEN "Engine" ELSE None

InitializeEngineConvert(o) ==
  IF o.result = "ok" THEN NORMAL ELSE DISABLED

Init ==
  /\ init \in InitOutcomes
  /\ engine = InitializeEngineEngine(init)
  /\ is_speaking = FALSE
  /\ status = InitializeEngineStatus(init)
  /\ convert_button = InitializeEngineConvert(init)
  /\ stop_button = DISABLED
  /\ ui_pc = "idle"
  /\ pc = [w \in Workers |-> "none"]
  /\ exc = [w \in Workers |-> None]
  /\ e_bound = [w \in Workers |-> FALSE]
  /\ raised_after_stop = {}
  /\ after_queue = <<>>
  /\ current = 0
  /\ stopped = {}
  /\ nsched = [w \in Workers |-> 0]
  /\ last = Did("init", <<>>, None, FALSE, FALSE)

(* ------------------------------ UI thread ------------------------------ *)
FreeWorkers == {w \in Workers : pc[w] = "none"}

\* lines 238-241 with the stop button left as it was
BeginConversionStopUntouched ==
  /\ is_speaking' = TRUE
  /\ status' = StatusConverting
  /\ convert_button' = DISABLED
  /\ stop_button' = stop_button
  /\ ui_pc' = "start_thread"
  /\ last' = Did("convert", <<>>, None, FALSE, TRUE)

\* _on_convert_click lines 238-241: the flag, the status and the two buttons;
\* the thread is started next (StartThread)
BeginConversion ==
  /\ is_speaking' = TRUE
  /\ status' = StatusConverting
  /\ convert_button' = DISABLED
  /\ stop_button' = NORMAL
  /\ ui_pc' = "start_thread"
  /\ last' = Did("convert", <<>>, None, FALSE, TRUE)

\* _on_convert_click up to line 241: the two early returns, then the widgets.
\* The two dialogs are modal and the handler returns right after them, so a
\* callback Tk runs while a dialog is open acts as one run after this step.
\* MaxWorkers bounds the number of accepted clicks (FreeWorkers # {}).
OnConvertClick(content) ==
  /\ ui_pc = "idle"
  /\ IF engine = None
       THEN /\ last' = Did("convert", <<>>, "showerror", FALSE, FALSE)
            /\ UNCHANGED <<uiVars, ui_pc>>
       ELSE IF ValidateInput(content) = None
         THEN /\ last' = Did("convert", <<>>, "showwarning", FALSE, FALSE)
              /\ UNCHANGED <<uiVars, ui_pc>>
         ELSE /\ FreeWorkers # {}
              /\ BeginConversion
  /\ UNCHANGED <<init, engine, workerVars, after_queue, current, stopped>>

\* _on_convert_click lines 243-245: threading.Thread(...).start()
StartThread ==
  /\ ui_pc = "start_thread"
  /\ LET w == CHOOSE v \in FreeWorkers : \A u \in FreeWorkers : v <= u
     IN  /\ pc' = [pc EXCEPT ![w] = "say"]
         /\ current' = w
  /\ ui_pc' = "idle"
  /\ last' = Did("start_thread", <<>>, None, FALSE, FALSE)
  /\ UNCHANGED <<init, engine, uiVars, exc, e_bound, raised_after_stop, nsched, after_queue, stopped>>

\* lines 288-292 without the assignment to the flag
StopPlaybackFlagKept ==
  /\ is_speaking' = is_speaking
  /\ status' = StatusStopped
  /\ convert_button' = NORMAL
  /\ stop_button' = DISABLED
  /\ stopped' = IF current = 0 THEN stopped ELSE stopped \cup {current}
  /\ last' = Did("stop", <<"stop">>, None, TRUE, FALSE)

\* _stop_speaking lines 288-292: engine.stop(), the flag, the status, the buttons
StopPlayback ==
  /\ is_speaking' = FALSE
  /\ status' = StatusStopped
  /\ convert_button' = NORMAL
  /\ stop_button' = DISABLED
  /\ stopped' = IF current = 0 THEN stopped ELSE stopped \cup {current}
  /\ last' = Did("stop", <<"stop">>, None, TRUE, TRUE)

\* _stop_speaking
StopSpeaking ==
  /\ ui_pc = "idle"
  /\ IF engine # None /\ is_speaking
       THEN StopPlayback
       ELSE /\ last' = Did("stop", <<>>, None, engine # None, FALSE)
            /\ UNCHANGED <<uiVars, stopped>>
  /\ UNCHANGED <<init, engine, ui_pc, workerVars, after_queue, current>>

\* _on_speech_complete without line 271
OnSpeechCompleteStopLeftEnabled ==
  /\ is_speaking' = FALSE
  /\ status' = StatusComplete
  /\ convert_button' = NORMAL
  /\ stop_button' = stop_button

\* _on_speech_complete
OnSpeechComplete ==
  /\ is_speaking' = FALSE
  /\ status' = StatusComplete
  /\ convert_button' = NORMAL
  /\ stop_button' = DISABLED

\* _on_speech_error(error)
OnSpeechError(error) ==
  /\ is_speaking' = FALSE
  /\ status' = StatusError(error)
  /\ convert_button' = NORMAL
  /\ stop_button' = DISABLED

\* lambda: self._on_speech_error(str(e)), run by the event loop.  The name e
\* is a free variable of the lambda: once the worker has left its except
\* clause it is unbound and the call raises NameError, which Tk reports
\* without running _on_speech_error.
ErrorLambda(w) ==
  IF e_bound[w]
    THEN /\ OnSpeechError(exc[w])
         /\ last' = Did("callback_error", <<>>, None, FALSE, TRUE)
    ELSE /\ UNCHANGED uiVars
         /\ last' = Did("callback_nameerror", <<>>, None, FALSE, FALSE)

\* the event loop runs the oldest callback scheduled with root.after
RunCallback ==
  /\ ui_pc = "idle"
  /\ after_queue # <<>>
  /\ LET cb == Head(after_queue)
     IN  IF cb.kind = "complete"
           THEN /\ OnSpeechComplete
                /\ last' = Did("callback_complete", <<>>, None, FALSE, TRUE)
           ELSE ErrorLambda(cb.w)
  /\ after_queue' = Tail(after_queue)
  /\ UNCHANGED <<init, engine, ui_pc, workerVars, current, stopped>>

\* a click reaches the command of a button only while the button is enabled
ClickConvertText(content) ==
  /\ convert_button = NORMAL
  /\ OnConvertClick(content)

ClickConvert == \E content \in Inputs : ClickConvertText(content)

ClickStop ==
  /\ stop_button = NORMAL
  /\ StopSpeaking

(* ----------------------------- worker thread --------------------------- *)
WorkerFrame == UNCHANGED <<init, engine, uiVars, ui_pc, current, stopped>>

\* an engine call raises: control enters `except Exception as e`
Raise(w, m) ==
  /\ pc' = [pc EXCEPT ![w] = "except"]
  /\ exc' = [exc EXCEPT ![w] = m]
  /\ e_bound' = [e_bound EXCEPT ![w] = TRUE]
  /\ raised_after_stop' =
       IF w \in stopped THEN raised_after_stop \cup {w} ELSE raised_after_stop

\* line 256: self.engine.say(text)
Say(w) ==
  /\ pc[w] = "say"
  /\ \/ /\ pc' = [pc EXCEPT ![w] = "run"]
        /\ UNCHANGED <<exc, e_bound, raised_after_stop>>
     \/ \E m \in Msgs : Raise(w, m)
  /\ last' = Did("worker", <<"say">>, None, FALSE, FALSE)
  /\ UNCHANGED <<nsched, after_queue>>
  /\ WorkerFrame

\* line 257: self.engine.runAndWait() returns or raises
RunAndWait(w) ==
  /\ pc[w] = "run"
  /\ \/ /\ pc' = [pc EXCEPT ![w] = "check"]
        /\ UNCHANGED <<exc, e_bound, raised_after_stop>>
     \/ \E m \in Msgs : Raise(w, m)
  /\ last' = Did("worker", <<"runAndWait">>, None, FALSE, FALSE)
  /\ UNCHANGED <<nsched, after_queue>>
  /\ WorkerFrame

\* line 260: if self.is_speaking
CheckSpeaking(w) ==
  /\ pc[w] = "check"
  /\ pc' = [pc EXCEPT ![w] = IF is_speaking THEN "after" ELSE "done"]
  /\ last' = Did("worker", <<>>, None, TRUE, FALSE)
  /\ UNCHANGED <<exc, e_bound, raised_after_stop, nsched, after_queue>>
  /\ WorkerFrame

\* line 261 calling _on_speech_complete on the worker thread itself
ScheduleCompleteDirectCall(w) ==
  /\ pc[w] = "after"
  /\ OnSpeechComplete
  /\ pc' = [pc EXCEPT ![w] = "done"]
  /\ last' = Did("worker", <<>>, None, FALSE, TRUE)
  /\ UNCHANGED <<exc, e_bound, raised_after_stop, nsched, after_queue>>
  /\ UNCHANGED <<init, engine, ui_pc, current, stopped>>

\* line 261: self.root.after(0, self._on_speech_complete)
ScheduleComplete(w) ==
  /\ pc[w] = "after"
  /\ after_queue' = Append(after_queue, [kind |-> "complete", w |-> w])
  /\ nsched' = [nsched EXCEPT ![w] = @ + 1]
  /\ pc' = [pc EXCEPT ![w] = "done"]
  /\ last' = Did("worker", <<>>, None, FALSE, FALSE)
  /\ UNCHANGED <<exc, e_bound, raised_after_stop>>
  /\ WorkerFrame

\* line 264: self.root.after(0, lambda: self._on_speech_error(str(e)))
ScheduleError(w) ==
  /\ pc[w] = "except"
  /\ after_queue' = Append(after_queue, [kind |-> "error", w |-> w])
  /\ nsched' = [nsched EXCEPT ![w] = @ + 1]
  /\ pc' = [pc EXCEPT ![w] = "leave_except"]
  /\ last' = Did("worker", <<>>, None, FALSE, FALSE)
  /\ UNCHANGED <<exc, e_bound, raised_after_stop>>
  /\ WorkerFrame

\* the end of the except clause deletes the name e
LeaveExcept(w) ==
  /\ pc[w] = "leave_except"
  /\ e_bound' = [e_bound EXCEPT ![w] = FALSE]
  /\ pc' = [pc EXCEPT ![w] = "done"]
  /\ last' = Did("worker", <<>>, None, FALSE, FALSE)
  /\ UNCHANGED <<exc, raised_after_stop, nsched, after_queue>>
  /\ WorkerFrame

\* _speak_text, one step of worker w
SpeakText(w) ==
  \/ Say(w)
  \/ RunAndWait(w)
  \/ CheckSpeaking(w)
  \/ ScheduleComplete(w)
  \/ ScheduleError(w)
  \/ LeaveExcept(w)

(* ---------------------------- specifications --------------------------- *)
Next ==
  \/ ClickConvert
  \/ StartThread
  \/ ClickStop
  \/ RunCallback
  \/ \E w \in Workers : SpeakText(w)

Spec == Init /\ [][Next]_vars

TypeOK ==
  /\ init \in InitOutcomes
  /\ engine \in {None, "Engine"}
  /\ is_speaking \in BOOLEAN
  /\ convert_button \in {NORMAL, DISABLED}
  /\ stop_button \in {NORMAL, DISABLED}
  /\ ui_pc \in {"idle", "start_thread"}
  /\ pc \in [Workers -> {"none", "say", "run", "check", "after", "except", "leave_except", "done"}]
  /\ current \in 0..MaxWorkers
  /\ stopped \subseteq Workers
  /\ Len(after_queue) <= MaxWorkers

\* the handlers invoked directly (self._on_convert_click(), self._stop_speaking()),
\* whatever the state of the buttons
InvokeConvert == \E content \in Inputs : OnConvertClick(content)

InvokeStop == StopSpeaking

NextHandlers ==
  \/ InvokeConvert
  \/ StartThread
  \/ InvokeStop
  \/ RunCallback
  \/ \E w \in Workers : SpeakText(w)

HandlerSpec == Init /\ [][NextHandlers]_vars

\* every started worker keeps running and the event loop keeps dispatching;
\* the user is free never to click again
FairSpec ==
  /\ Spec
  /\ WF_vars(StartThread)
  /\ WF_vars(RunCallback)
  /\ \A w \in Workers : WF_vars(SpeakText(w))

(* ------------------------------ UI states ------------------------------ *)
IsSpeakingState ==
  /\ is_speaking
  /\ status = StatusConverting
  /\ convert_button = DISABLED
  /\ stop_button = NORMAL

IsCompleteState ==
  /\ ~is_speaking
  /\ status = StatusComplete
  /\ convert_button = NORMAL
  /\ stop_button = DISABLED

IsStoppedState ==
  /\ ~is_speaking
  /\ status = StatusStopped
  /\ convert_button = NORMAL
  /\ stop_button = DISABLED

ActiveWorkers == {w \in Workers : pc[w] \notin {"none", "done"}}

(* -------------------------------- claims ------------------------------- *)
\* C1: once a stop request has put the UI in Stopped ("Playback stopped"),
\* no later step (a worker's return or a completion callback that runs after
\* the stop) turns the state into Complete.
C1_StoppedNotOverwritten ==
  [][IsStoppedState => ~IsCompleteState']_vars

\* C2: in every reachable state at most one worker thread exists (started
\* and not yet out of _speak_text).
C2_AtMostOneWorker == Cardinality(ActiveWorkers) <= 1

\* C3: when the event loop runs the error callback of a worker whose
\* conversion was not stopped, _on_speech_error runs with the message of the
\* raised exception: is_speaking false, status "Error: <message>", convert
\* enabled, stop disabled; whether or not the worker has left its handler.
C3_ErrorCallbackShowsError ==
  [][\A w \in Workers :
       ( /\ after_queue # <<>>
         /\ Head(after_queue) = [kind |-> "error", w |-> w]
         /\ after_queue' = Tail(after_queue)
         /\ w \notin stopped )
       => ( /\ ~is_speaking'
            /\ status' = StatusError(exc[w])
            /\ convert_button' = NORMAL
            /\ stop_button' = DISABLED )]_vars

\* C4: if the synthesis call of a conversion has returned normally and no
\* stop request was handled before it returned, the state eventually
\* becomes Complete.
C4_NormalReturnLeadsToComplete ==
  \A w \in Workers : (pc[w] = "check" /\ w \notin stopped) ~> IsCompleteState

\* what the claims call an input that is empty, only whitespace, or the
\* placeholder between whitespace
IsBlank(s) == \A i \in 1..Len(s) : s[i] \in Whitespace

TrimsTo(s, t) ==
  \E i \in 1..(Len(s) + 1) : \E j \in 0..Len(s) :
    /\ SubSeq(s, i, j) = t
    /\ \A k \in 1..Len(s) : (k < i \/ k > j) => s[k] \in Whitespace

RejectedInput(s) == IsBlank(s) \/ TrimsTo(s, Placeholder)

RejectedInputs == {t \in Inputs : RejectedInput(t)}
AcceptedInputs == Inputs \ RejectedInputs

\* C5: a convert click with an input that trims to a non-empty text other
\* than the placeholder, the engine being available, sets the flag, the
\* converting status, convert disabled and stop enabled while no worker has
\* been started yet; and every step that starts a worker starts it in a
\* state where all four are already set.
C5_SpeakingBeforeThreadStarts ==
  [][ /\ \A t \in AcceptedInputs :
           (engine # None /\ ClickConvertText(t))
           => (IsSpeakingState' /\ pc' = pc /\ ui_pc' = "start_thread")
      /\ \A w \in Workers :
           (pc[w] = "none" /\ pc'[w] # "none")
           => (IsSpeakingState /\ IsSpeakingState' /\ pc'[w] = "say") ]_vars

\* a worker has just been started by an accepted click
C5_Witness ==
  /\ last.op = "start_thread"
  /\ current # 0
  /\ pc[current] = "say"
  /\ IsSpeakingState

\* C6: a convert click with an empty, whitespace-only or placeholder input
\* shows the warning and changes nothing: flag, status, both buttons, the
\* workers and the callback queue are unchanged and the engine is not called.
C6_RejectedClickChangesNothing ==
  [][\A t \in RejectedInputs :
       ClickConvertText(t)
       => ( /\ UNCHANGED <<uiVars, ui_pc, workerVars, after_queue, current, engine>>
            /\ last'.dialog = "showwarning"
            /\ last'.calls = <<>> )]_vars

\* a click has just been rejected with the warning
C6_Witness ==
  /\ last.op = "convert"
  /\ last.dialog = "showwarning"
  /\ ui_pc = "idle"

InitFailed == init.result # "ok"

\* C7: after a failed engine initialization (import error, init() raising,
\* setProperty raising) convert stays disabled, is_speaking stays false, the
\* status keeps the initialization error and no worker exists, however often
\* the convert and stop handlers are invoked.
C7_InitFailureIsPermanent ==
  InitFailed =>
    /\ convert_button = DISABLED
    /\ ~is_speaking
    /\ status = InitializeEngineStatus(init)
    /\ ui_pc = "idle"
    /\ \A w \in Workers : pc[w] = "none"

\* C8: a stop request handled with the engine present and is_speaking true
\* calls engine.stop() once, clears the flag, shows "Playback stopped",
\* enables convert and disables stop in that one step, and moves no worker.
C8_StopIsImmediate ==
  [][(engine # None /\ is_speaking /\ StopSpeaking)
       => ( /\ last'.calls = <<"stop">>
            /\ IsStoppedState'
            /\ pc' = pc
            /\ after_queue' = after_queue )]_vars

\* stopped while a worker is still inside engine.runAndWait()
C8_Witness ==
  /\ last.op = "stop"
  /\ IsStoppedState
  /\ \E w \in Workers : pc[w] = "run"

\* C9: no step of a worker reads or writes is_speaking; the flag changes
\* only in steps of the UI thread.
C9_FlagOnlyOnUIThread ==
  [][ /\ (\E w \in Workers : SpeakText(w))
           => (~last'.flag_read /\ ~last'.flag_write /\ is_speaking' = is_speaking)
      /\ (is_speaking' # is_speaking) => last'.op # "worker" ]_vars

UIOps == {"convert", "stop", "callback_complete", "callback_error"}

\* C10: a worker step leaves the status and both buttons unchanged and at
\* most appends one callback to the root.after queue; no worker schedules
\* more than one callback; status and buttons change only in a step of a UI
\* handler or a dequeued callback.
C10_WorkerNeverTouchesWidgets ==
  [][ /\ (\E w \in Workers : SpeakText(w))
           => ( /\ UNCHANGED <<status, convert_button, stop_button>>
                /\ \/ after_queue' = after_queue
                   \/ \E v \in Workers : \E k \in {"complete", "error"} :
                        after_queue' = Append(after_queue, [kind |-> k, w |-> v])
                /\ \A v \in Workers : nsched'[v] <= 1 )
      /\ (<<status, convert_button, stop_button>>' # <<status, convert_button, stop_button>>)
           => last'.op \in UIOps ]_vars

\* a worker has just handed its callback to the event loop
C10_Witness ==
  /\ last.op = "worker"
  /\ after_queue # <<>>
  /\ \E w \in Workers : nsched[w] = 1 /\ pc[w] \in {"done", "leave_except"}
  /\ IsSpeakingState

\* control is back with the user: convert enabled, stop disabled, flag clear
ControlReturned ==
  /\ ~is_speaking
  /\ convert_button = NORMAL
  /\ stop_button = DISABLED

\* C11: Speaking is never permanent: once a convert click has been accepted
\* and its worker started, with every worker and the event loop scheduled
\* fairly (so every synthesis call terminates) the flag is eventually clear
\* with convert enabled and stop disabled.  While the state is Speaking the
\* only click a button lets through is stop, which itself ends Speaking, so
\* a behaviour that stays in Speaking has no further user action.
C11_SpeakingIsNeverPermanent ==
  (ui_pc = "idle" /\ IsSpeakingState) ~> ControlReturned

\* C12: whenever the event loop runs _on_speech_complete, the worker that
\* scheduled it is the worker of the most recently accepted convert click and
\* that conversion was not stopped; a worker whose conversion was stopped
\* never schedules _on_speech_complete; and the state is never Complete
\* while a worker is still inside the synthesis call.
C12_CompleteOnlyFromCurrentWorker ==
  [][ /\ \A w \in Workers :
           ( /\ after_queue # <<>>
             /\ Head(after_queue) = [kind |-> "complete", w |-> w]
             /\ after_queue' = Tail(after_queue) )
           => (w = current /\ w \notin stopped)
      /\ \A w \in Workers :
           (pc[w] = "after" /\ pc'[w] = "done") => w \notin stopped
      /\ ~(IsCompleteState' /\ \E w \in Workers : pc'[w] \in {"say", "run"}) ]_vars

\* C14: between handler executions the stop button is enabled exactly when
\* is_speaking is true, convert is never enabled while is_speaking is true,
\* and after a successful engine initialization convert is enabled exactly
\* when is_speaking is false.
C14_ButtonsFollowFlag ==
  ui_pc = "idle" =>
    /\ (stop_button = NORMAL) <=> is_speaking
    /\ ~(convert_button = NORMAL /\ is_speaking)
    /\ init.result = "ok" => ((convert_button = NORMAL) <=> ~is_speaking)

\* a completion callback has just brought the buttons back after a conversion
C14_Witness ==
  /\ last.op = "callback_complete"
  /\ ui_pc = "idle"
  /\ IsCompleteState
  /\ init.result = "ok"

\* C13: when the event loop runs the error callback of a worker whose
\* synthesis call raised after its conversion had been stopped, nothing of
\* the UI changes: the flag, the status ("Playback stopped", or whatever a
\* newer conversion shows) and both buttons stay as they are.
C13_LateErrorChangesNothing ==
  [][\A w \in raised_after_stop :
       ( /\ after_queue # <<>>
         /\ Head(after_queue) = [kind |-> "error", w |-> w]
         /\ after_queue' = Tail(after_queue) )
       => UNCHANGED uiVars]_vars
====
